---- MODULE Spec2Model ----
(***************************************************************************)
(* Model of gulkily/slidegen.                                              *)
(*                                                                         *)
(* The driver (src/generate_slides.py): the checks of the command line,    *)
(* resume detection, the per-topic loop of main(), the retry wrapper       *)
(* around the model processor, the slide and summaries files on disk,      *)
(* KeyboardInterrupt and failing writes.  parse_config, the usage          *)
(* statistics of src/anthropic_file_processor.py and the file listing of   *)
(* src/combine_all_slides.py are modelled by themselves.                   *)
(*                                                                         *)
(* Text is modelled as a sequence of pieces.  " " is one blank, "\n" a     *)
(* newline, "T" is the literal TOPIC_CLARIFICATION_NEEDED, "C" is          *)
(* CONTENT_CLARIFICATION_NEEDED, "M" is the split marker                   *)
(* <!--SPLIT_SLIDE_HERE-->, every other piece is ordinary text.  File      *)
(* names are sequences as well: "slide_", decimal digit characters, "_"    *)
(* and ".html".  The body of a slide file is the fragment that             *)
(* insert_into_template receives; the template around it is left out.      *)
(*                                                                         *)
(* Spec       runs without --test-mode on an outline of NumTopics topics   *)
(* SpecSplit  the same runs on responses split in every way                *)
(* SpecTest   runs with --test-mode on an outline of TestModeCap + 1       *)
(*            topics                                                       *)
(* SpecSort   slide files are written and the combiner lists them          *)
(* SpecUsage  the processor is called and writes its statistics            *)
(* SpecParse  parse_config is applied to outline texts                     *)
(* SpecRetry  run_prompt_through_anthropic is called with a retry budget   *)
(*            of 0..MaxBudget attempts                                     *)
(* SpecConfig runs that are given one of two outlines with --config        *)
(***************************************************************************)
EXTENDS Integers, Sequences, FiniteSets, TLC

\* ------------------------------------------------------------------ bounds
NumTopics == 3      \* topics in the stored course outline
MaxLines == 3       \* lines of an outline text
MaxCalls == 3       \* processor calls of a run that are followed
MaxRuns == 2        \* invocations of the driver on the same course

\* ------------------------------------------------------- program constants
MaxRetries == 1     \* max_retries default of run_prompt_through_anthropic
PadWidth == 3       \* f"{i:03d}"
TestModeCap == 5    \* main: if args.test_mode and i > 5: break

TOPIC_CLARIFICATION_NEEDED == <<"T">>
CONTENT_CLARIFICATION_NEEDED == <<"C">>
SPLIT_MARKER == "M"
Whitespace == {" ", "\n"}

VARIABLES
    pc,             \* position of the driver process
    run,            \* number of invocations started so far
    slideFiles,     \* slides directory: file name -> [body, complete]
    summaryFile,    \* slides/summaries.json: [exists, complete, entries]
    next_slide,     \* main: next_slide
    summary_stack,  \* main: summary_stack (in memory)
    i,              \* main: loop index i (topic number)
    j,              \* main: part index j
    slide_parts,    \* main: slide_parts
    prompt,         \* the generation prompt built last: [made, topic, context]
    lastOuts,       \* outcomes of the attempts of the most recent gateway call
    reported,       \* the slide number printed by "Resume from slide ..."
    stoppedAt,      \* the position at which KeyboardInterrupt was raised
    error,          \* the uncaught exception that ended the run, if any
    generated,      \* history: names of the slide files written, in order
    confirmed,      \* history: the last fully persisted summaries sequence
    startSlides,    \* history: the slides directory when the run started
    startStack,     \* history: [readable, entries] of summaries.json at start
    firstCall,      \* history: first generation call of the run
    nTopics,        \* len(topics): the topics parse_config has returned to
                    \* the run (0 before the first parse)
    test_mode,      \* args.test_mode
    args,           \* the command line of the run: [course_id, config]
    configStored,   \* config/course_config.txt exists in the course directory
    storedOutline,  \* the outline it holds, as its number of topics (0: none)
    configFiles,    \* the outlines --config can name, each as its number of
                    \* topics
    exitStatus,     \* exit status of the last run that has ended (-1: none)
    genResponse,    \* history: the generation response being split
    gateway,        \* what an attempt of a generation (gen) and of a
                    \* summarization (sum) call can end in
    combiner,       \* combine_all_slides.py: the slide files and their listing
    processor,      \* anthropic_file_processor.py: the calls and stats.json
    parser,         \* parse_config: an outline text and what it is parsed to
    retrier         \* run_prompt_through_anthropic: one call, attempt by attempt

\* fixed by the initial state; nTopics is fixed by the outline stored first
runVars == <<nTopics, test_mode, gateway, configFiles>>

\* the state of the functions and programs that are studied by themselves
auxVars == <<combiner, processor, parser, retrier>>

\* the state of the driver, generate_slides.py
driverVars == <<pc, run, slideFiles, summaryFile, next_slide, summary_stack,
                i, j, slide_parts, prompt, lastOuts, reported, stoppedAt,
                error, generated, confirmed, startSlides, startStack,
                firstCall, nTopics, test_mode, args, configStored,
                storedOutline, configFiles,
                exitStatus, genResponse, gateway>>

vars == <<pc, run, slideFiles, summaryFile, next_slide, summary_stack, i, j,
          slide_parts, prompt, lastOuts, reported, stoppedAt, error,
          generated, confirmed, startSlides, startStack, firstCall,
          nTopics, test_mode, args, configStored, storedOutline,
          configFiles, exitStatus, genResponse,
          gateway, combiner, processor, parser, retrier>>

\* ------------------------------------------------------------ text helpers
RECURSIVE LStrip(_)
LStrip(s) ==
    IF s # <<>> /\ Head(s) \in Whitespace THEN LStrip(Tail(s)) ELSE s

RECURSIVE RStrip(_)
RStrip(s) ==
    IF s # <<>> /\ s[Len(s)] \in Whitespace
    THEN RStrip(SubSeq(s, 1, Len(s) - 1)) ELSE s

\* str.strip() with its argument left out returns its argument unchanged
StripMissing(s) == s

\* str.strip()
Strip(s) == RStrip(LStrip(s))

\* the text in one piece, whatever markers it holds
SplitNever(s) == <<s>>

\* str.split(marker): the pieces between the occurrences of the marker
RECURSIVE Split(_)
Split(s) ==
    IF \E k \in 1..Len(s) : s[k] = SPLIT_MARKER
    THEN LET k == CHOOSE k \in 1..Len(s) :
                    /\ s[k] = SPLIT_MARKER
                    /\ \A m \in 1..(k - 1) : s[m] # SPLIT_MARKER
         IN <<SubSeq(s, 1, k - 1)>> \o Split(SubSeq(s, k + 1, Len(s)))
    ELSE <<s>>

\* ------------------------------------------------------------- file names
DigitChars == <<"0", "1", "2", "3", "4", "5", "6", "7", "8", "9">>
IsDigit(c) == \E d \in 1..10 : DigitChars[d] = c
DigitValue(c) == (CHOOSE d \in 1..10 : DigitChars[d] = c) - 1

\* str(n) for n >= 0
RECURSIVE Decimal(_)
Decimal(n) ==
    IF n < 10 THEN <<DigitChars[n + 1]>>
    ELSE Decimal(n \div 10) \o <<DigitChars[(n % 10) + 1]>>

\* int(s) for a sequence of digit characters
RECURSIVE IntOf(_)
IntOf(s) ==
    IF s = <<>> THEN 0
    ELSE 10 * IntOf(SubSeq(s, 1, Len(s) - 1)) + DigitValue(s[Len(s)])

\* the digits as they are, without padding
ZeroPadNone(s, width) == s

\* the format specification 03d applied to the digits of a number
RECURSIVE ZeroPad(_, _)
ZeroPad(s, width) == IF Len(s) >= width THEN s ELSE ZeroPad(<<"0">> \o s, width)

\* the slide number without the part suffix, whatever the number of parts
SlideNumberNoSuffix(topic, part, nparts) == ZeroPad(Decimal(topic), PadWidth)

\* main: slide_number = f"{i:03d}", plus f"_{j}" when the topic was split
SlideNumber(topic, part, nparts) ==
    ZeroPad(Decimal(topic), PadWidth)
        \o (IF nparts > 1 THEN <<"_">> \o Decimal(part) ELSE <<>>)

\* main: slides_dir / f"slide_{slide_number}.html"
SlideFileName(number) == <<"slide_">> \o number \o <<".html">>

\* re.search(r'slide_(\d+)\.html', f): the digits captured, <<>> for no match
ReSearchSlide(f) ==
    LET hits == {pq \in (1..Len(f)) \X (1..Len(f)) :
                    /\ f[pq[1]] = "slide_"
                    /\ pq[2] > pq[1]
                    /\ \A m \in (pq[1] + 1)..pq[2] : IsDigit(f[m])
                    /\ pq[2] + 1 <= Len(f)
                    /\ f[pq[2] + 1] = ".html"}
    IN IF hits = {} THEN <<>>
       ELSE LET pq == CHOOSE h \in hits : TRUE
            IN SubSeq(f, pq[1] + 1, pq[2])

SetMax(S) == CHOOSE m \in S : \A n \in S : n <= m

Raised == -1    \* the call ends in an exception instead of a value

\* get_next_slide_number(slides_dir) over the file names glob returns
get_next_slide_number(slide_files) ==
    IF slide_files = {} THEN 1
    ELSE IF \E f \in slide_files : ReSearchSlide(f) = <<>>
         THEN Raised    \* None.group(1): AttributeError
         ELSE SetMax({IntOf(ReSearchSlide(f)) : f \in slide_files}) + 1

\* ------------------------------------------------------------ the gateway
\* One attempt of the model processor: the subprocess fails
\* (CalledProcessError) or leaves a response text in the output file.
Failure == [ok |-> FALSE, text |-> <<>>]
Response(text) == [ok |-> TRUE, text |-> text]

GenTexts ==
    { <<"T">>,              \* the sentinel, exact
      <<" ", "T", " ">>,    \* the sentinel inside whitespace
      <<" ">>,              \* whitespace only
      <<"a">>,              \* one slide
      <<"a", "M", " ", "b">> }   \* two slides
SumTexts ==
    { <<"C">>, <<" ", "C">>, <<" ", "s", " ">> }

\* responses with no, one and two split markers
SplitTexts ==
    { <<" ", "a", " ", "b", " ">>,
      <<"a", "M", " ", "b">>,
      <<" ", "M", "a", " ", "M", "b">>,
      <<"a", "M", "M", "b", " ">> }

GenOutcomes == {Failure} \cup {Response(t) : t \in GenTexts}
SplitOutcomes == {Failure} \cup {Response(t) : t \in SplitTexts}
SumOutcomes == {Failure} \cup {Response(t) : t \in SumTexts}

None == [none |-> TRUE, text |-> <<>>]
Returned(text) == [none |-> FALSE, text |-> text]

\* only the topic sentinel is looked for
TopicSentinelOnly(response) == response = TOPIC_CLARIFICATION_NEEDED

\* run_prompt_through_anthropic: response in [the two sentinels]
IsSentinel(response) ==
    response \in {TOPIC_CLARIFICATION_NEEDED, CONTENT_CLARIFICATION_NEEDED}

\* the last element of a sequence: s[-1]
LastOf(s) == s[Len(s)]

\* the elements of a sequence
Range(s) == {s[n] : n \in 1..Len(s)}

\* the value returned, and the number of times the processor was invoked
AfterCalls(r, calls) == [none |-> r.none, text |-> r.text, calls |-> calls]

\* a loop over range(max_retries - 1): with max_retries = 1 no attempt is made
AttemptsOneShort(outs, attempt) == AfterCalls(None, 0)

\* run_prompt_through_anthropic: the for loop over range(max_retries), from
\* attempt (0-based) on; outs[attempt + 1] is what that attempt's subprocess does
RECURSIVE Attempts(_, _)
Attempts(outs, attempt) ==
    IF attempt >= MaxRetries THEN AfterCalls(None, attempt)
    ELSE LET o == outs[attempt + 1] IN
         IF o.ok
         THEN LET response == Strip(o.text) IN
              IF IsSentinel(response)
              THEN IF attempt = MaxRetries - 1
                   THEN AfterCalls(None, attempt + 1)
                   ELSE Attempts(outs, attempt + 1)
              ELSE AfterCalls(Returned(response), attempt + 1)
         ELSE IF attempt = MaxRetries - 1
              THEN AfterCalls(None, attempt + 1)
              ELSE Attempts(outs, attempt + 1)

run_prompt_through_anthropic(outs) == Attempts(outs, 0)

\* Python truth value of the returned value: None and "" are false
Truthy(r) == ~r.none /\ r.text # <<>>

\* ------------------------------------------------------------------- disk
EmptyDir == [f \in {} |-> [body |-> <<>>, complete |-> TRUE]]
NoSummaryFile == [exists |-> FALSE, complete |-> FALSE, entries |-> <<>>]

\* open(name, 'w') creates or truncates the file; until the write and the
\* close have happened the file holds a strict prefix of the new content
OpenForWriting(files, name, body) ==
    [f \in (DOMAIN files) \cup {name} |->
        IF f = name THEN [body |-> body, complete |-> FALSE] ELSE files[f]]

\* the with block ends: the whole content is in the file
Written(files, name) == [files EXCEPT ![name].complete = TRUE]

\* list.insert(0, entry)
StackPrepend(stack, entry) == <<entry>> \o stack

\* summary_stack.append(summary)
StackAppend(stack, entry) == Append(stack, entry)

\* ------------------------------------------------------------------- Init
NoPrompt == [made |-> FALSE, topic |-> 0, context |-> <<>>]
NoResponse == [made |-> FALSE, topic |-> 0, text |-> <<>>]
NoArgs == [course_id |-> FALSE, config |-> "none", file |-> 0]

\* everything but the outline and the mode of the runs
InitCourse ==
    /\ pc = "idle"
    /\ run = 0
    /\ slideFiles = EmptyDir
    /\ summaryFile = NoSummaryFile
    /\ next_slide = 0
    /\ summary_stack = <<>>
    /\ i = 0
    /\ j = 0
    /\ slide_parts = <<>>
    /\ prompt = NoPrompt
    /\ lastOuts = <<>>
    /\ reported = 0
    /\ stoppedAt = "none"
    /\ error = "none"
    /\ generated = <<>>
    /\ confirmed = <<>>
    /\ startSlides = EmptyDir
    /\ startStack = [readable |-> TRUE, entries |-> <<>>]
    /\ firstCall = NoPrompt
    /\ args = NoArgs
    /\ configStored = FALSE
    /\ storedOutline = 0
    /\ exitStatus = -1
    /\ genResponse = NoResponse

\* nothing has been combined, no processor has run, nothing has been parsed
NoCombiner ==
    [start |-> 1, topics |-> 0, names |-> <<>>, slides |-> <<>>, listed |-> FALSE]
NoStats == [exists |-> FALSE, input_tokens |-> 0, output_tokens |-> 0,
            total_tokens |-> 0]
NoProcessor == [calls |-> 0, sum_in |-> 0, sum_out |-> 0, stats |-> NoStats]
NoParser == [outline |-> <<>>, parsed |-> FALSE, title |-> <<>>, topics |-> <<>>]

\* run_prompt_through_anthropic has not been called
NoRetrier == [max_retries |-> MaxRetries, attempt |-> 0, at |-> "idle",
              outs |-> <<>>, result |-> None]

InitDriver ==
    /\ InitCourse
    /\ nTopics = 0
    /\ configFiles = {NumTopics}
    /\ test_mode = FALSE
    /\ gateway = [gen |-> GenOutcomes, sum |-> SumOutcomes]

Init ==
    /\ InitDriver
    /\ combiner = NoCombiner
    /\ processor = NoProcessor
    /\ parser = NoParser
    /\ retrier = NoRetrier

Stopped == {"done", "interrupted", "crashed", "input_error"}
InTry == {"loop", "gen_call", "part", "slide_writing", "sum_call", "sum_writing"}

\* ---------------------------------------------------------------- actions
\* the command lines: --course-id given or not; --config not given, or
\* naming a file that does not exist, or naming a file that exists and
\* holds one of the outlines
CommandLines ==
    [course_id : BOOLEAN, config : {"none", "missing"}, file : {0}]
        \cup [course_id : BOOLEAN, config : {"present"}, file : configFiles]

\* Path.mkdir of the base directory (CourseManager.__init__) and of the
\* course's directories (create_course_directory)
MkdirOutcomes == {"ok", "base_fails", "course_fails"}

\* main: "if not args.course_id"
NoCourseId(a) == ~a.course_id

\* the existence of the --config path is not looked at
ConfigNeverChecked(a) == FALSE

\* main: "if args.config" and "if not config_path.exists()"
ConfigNotFound(a) == a.config = "missing"

\* config/course_config.txt after "if not course_config.exists(): copy"
StoredAfterCopy(a, stored) == stored \/ a.config = "present"

\* the copy is made whether or not the course has a configuration
OutlineOverwritten(a, stored, outline) ==
    IF a.config = "present" THEN a.file ELSE outline

\* the outline in config/course_config.txt after "if not
\* config_dest.exists(): shutil.copy2(config_src, config_dest)"
OutlineAfterCopy(a, stored, outline) ==
    IF a.config = "present" /\ ~stored THEN a.file ELSE outline

\* main: "if not course_config.exists()" after the copy
NoStoredConfig(a, stored) == ~StoredAfterCopy(a, stored)

\* main up to the loop: the directories, the checks of the command line, the
\* copy of the configuration, parse_config of the stored configuration (an
\* outline is modelled as the number of topics parse_config finds in it),
\* get_next_slide_number, then the load of
\* summaries.json.  None of it is inside the try block.
StartRun ==
    /\ pc \in {"idle"} \cup Stopped
    /\ run < MaxRuns
    /\ run' = run + 1
    /\ startSlides' = slideFiles
    /\ startStack' =
         [readable |-> ~summaryFile.exists \/ summaryFile.complete,
          entries |-> IF summaryFile.exists /\ summaryFile.complete
                      THEN summaryFile.entries ELSE <<>>]
    /\ firstCall' = NoPrompt
    /\ prompt' = NoPrompt
    /\ genResponse' = NoResponse
    /\ lastOuts' = <<>>
    /\ reported' = 0
    /\ stoppedAt' = "none"
    /\ j' = 0
    /\ slide_parts' = <<>>
    /\ \E a \in CommandLines, mkdir \in MkdirOutcomes :
         /\ args' = a
         /\ IF mkdir = "base_fails"
            THEN /\ pc' = "crashed"
                 /\ error' = "OSError"
                 /\ exitStatus' = 1
                 /\ next_slide' = 0
                 /\ i' = 0
                 /\ summary_stack' = <<>>
                 /\ UNCHANGED <<configStored, storedOutline, nTopics>>
            ELSE IF NoCourseId(a)
            THEN /\ pc' = "input_error"
                 /\ error' = "no course id"
                 /\ exitStatus' = 0
                 /\ next_slide' = 0
                 /\ i' = 0
                 /\ summary_stack' = <<>>
                 /\ UNCHANGED <<configStored, storedOutline, nTopics>>
            ELSE IF mkdir = "course_fails"
            THEN /\ pc' = "crashed"
                 /\ error' = "OSError"
                 /\ exitStatus' = 1
                 /\ next_slide' = 0
                 /\ i' = 0
                 /\ summary_stack' = <<>>
                 /\ UNCHANGED <<configStored, storedOutline, nTopics>>
            ELSE IF ConfigNotFound(a)
            THEN /\ pc' = "input_error"
                 /\ error' = "config file not found"
                 /\ exitStatus' = 0
                 /\ next_slide' = 0
                 /\ i' = 0
                 /\ summary_stack' = <<>>
                 /\ UNCHANGED <<configStored, storedOutline, nTopics>>
            ELSE IF NoStoredConfig(a, configStored)
            THEN /\ pc' = "input_error"
                 /\ error' = "no stored configuration"
                 /\ exitStatus' = 1
                 /\ next_slide' = 0
                 /\ i' = 0
                 /\ summary_stack' = <<>>
                 /\ UNCHANGED <<configStored, storedOutline, nTopics>>
            ELSE /\ configStored' = StoredAfterCopy(a, configStored)
                 /\ storedOutline' =
                      OutlineAfterCopy(a, configStored, storedOutline)
                 /\ nTopics' = storedOutline'
                 /\ LET n == get_next_slide_number(DOMAIN slideFiles) IN
                    IF n = Raised
                    THEN /\ pc' = "crashed"
                         /\ error' = "AttributeError"
                         /\ exitStatus' = 1
                         /\ next_slide' = 0
                         /\ i' = 0
                         /\ summary_stack' = <<>>
                    ELSE IF summaryFile.exists /\ ~summaryFile.complete
                    THEN /\ pc' = "crashed"
                         /\ error' = "JSONDecodeError"
                         /\ exitStatus' = 1
                         /\ next_slide' = n
                         /\ i' = 0
                         /\ summary_stack' = <<>>
                    ELSE /\ pc' = "loop"
                         /\ error' = "none"
                         /\ exitStatus' = -1
                         /\ next_slide' = n
                         /\ i' = n
                         /\ summary_stack' =
                              IF summaryFile.exists THEN summaryFile.entries
                              ELSE <<>>
    /\ UNCHANGED <<slideFiles, summaryFile, generated, confirmed, test_mode,
                   gateway, configFiles, auxVars>>

\* main: "for i, topic in enumerate(topics[next_slide-1:], next_slide)" has no
\* further topic, or "if args.test_mode and i > 5: break"
LoopOver == i > nTopics \/ (test_mode /\ i > TestModeCap)

\* main: the loop is left, and main returns
LoopEnd ==
    /\ pc = "loop"
    /\ LoopOver
    /\ pc' = "done"
    /\ exitStatus' = 0
    /\ UNCHANGED <<run, slideFiles, summaryFile, next_slide, summary_stack, i,
                   j, slide_parts, prompt, lastOuts, reported, stoppedAt,
                   error, generated, confirmed, startSlides, startStack,
                   firstCall, runVars, auxVars, args, configStored, storedOutline, genResponse>>

\* main: generate_slide_prompt(course_title, summary_stack, topic) and the
\* start of run_prompt_through_anthropic (the subprocess is running)
NextTopic ==
    /\ pc = "loop"
    /\ ~LoopOver
    /\ prompt' = [made |-> TRUE, topic |-> i, context |-> summary_stack]
    /\ firstCall' = IF firstCall.made THEN firstCall ELSE prompt'
    /\ pc' = "gen_call"
    /\ UNCHANGED <<run, slideFiles, summaryFile, next_slide, summary_stack, i,
                   j, slide_parts, lastOuts, reported, stoppedAt, error,
                   generated, confirmed, startSlides, startStack,
                   runVars, auxVars, args, configStored, storedOutline, exitStatus, genResponse>>

\* main: the generation call returns; skip the topic or split the response
GenReturn ==
    /\ pc = "gen_call"
    /\ \E outs \in [1..MaxRetries -> gateway.gen] :
         LET success == run_prompt_through_anthropic(outs)
             slide_content == Strip(success.text)
         IN /\ lastOuts' = SubSeq(outs, 1, success.calls)
            /\ IF ~Truthy(success) \/ slide_content = TOPIC_CLARIFICATION_NEEDED
               THEN /\ i' = i + 1
                    /\ pc' = "loop"
                    /\ UNCHANGED <<j, slide_parts, genResponse>>
               ELSE /\ slide_parts' = Split(slide_content)
                    /\ genResponse' = [made |-> TRUE, topic |-> i,
                                       text |-> LastOf(lastOuts').text]
                    /\ j' = 1
                    /\ pc' = "part"
                    /\ UNCHANGED i
    /\ UNCHANGED <<run, slideFiles, summaryFile, next_slide, summary_stack,
                   prompt, reported, stoppedAt, error, generated, confirmed,
                   startSlides, startStack, firstCall,
                   runVars, auxVars, args, configStored, storedOutline, exitStatus>>

CurrentSlide == SlideFileName(SlideNumber(i, j, Len(slide_parts)))

\* main: open(slide_file, 'w')
SlideOpen ==
    /\ pc = "part"
    /\ slideFiles' = OpenForWriting(slideFiles, CurrentSlide, Strip(slide_parts[j]))
    /\ pc' = "slide_writing"
    /\ UNCHANGED <<run, summaryFile, next_slide, summary_stack, i, j,
                   slide_parts, prompt, lastOuts, reported, stoppedAt, error,
                   generated, confirmed, startSlides, startStack, firstCall,
                   runVars, auxVars, args, configStored, storedOutline, exitStatus, genResponse>>

\* main: the slide file is written and closed, and the summarization call starts
SlideWritten ==
    /\ pc = "slide_writing"
    /\ slideFiles' = Written(slideFiles, CurrentSlide)
    /\ generated' = Append(generated, CurrentSlide)
    /\ pc' = "sum_call"
    /\ UNCHANGED <<run, summaryFile, next_slide, summary_stack, i, j,
                   slide_parts, prompt, lastOuts, reported, stoppedAt, error,
                   confirmed, startSlides, startStack, firstCall,
                   runVars, auxVars, args, configStored, storedOutline, exitStatus, genResponse>>

\* a break in place of the end of the body: the other parts are given up
AbandonTopic ==
    /\ i' = i + 1
    /\ j' = 0
    /\ slide_parts' = <<>>
    /\ pc' = "loop"

\* main: the end of the body of "for j, part": the next part, or the next topic
AdvancePart ==
    IF j < Len(slide_parts)
    THEN /\ j' = j + 1
         /\ pc' = "part"
         /\ UNCHANGED <<i, slide_parts>>
    ELSE /\ i' = i + 1
         /\ j' = 0
         /\ slide_parts' = <<>>
         /\ pc' = "loop"

\* main: the summarization call returns; append and open summaries.json, or
\* go on without a summary
SumReturn ==
    /\ pc = "sum_call"
    /\ \E outs \in [1..MaxRetries -> gateway.sum] :
         LET r == run_prompt_through_anthropic(outs)
             summary == Strip(r.text)
         IN /\ lastOuts' = SubSeq(outs, 1, r.calls)
            /\ IF Truthy(r) /\ summary # CONTENT_CLARIFICATION_NEEDED
               THEN /\ summary_stack' =
                         StackAppend(summary_stack,
                                     [text |-> summary, of |-> CurrentSlide])
                    /\ summaryFile' = [exists |-> TRUE, complete |-> FALSE,
                                       entries |-> summary_stack']
                    /\ pc' = "sum_writing"
                    /\ UNCHANGED <<i, j, slide_parts>>
               ELSE /\ AdvancePart
                    /\ UNCHANGED <<summary_stack, summaryFile>>
    /\ UNCHANGED <<run, slideFiles, next_slide, prompt, reported, stoppedAt,
                   error, generated, confirmed, startSlides, startStack,
                   firstCall, runVars, auxVars, args, configStored, storedOutline, exitStatus,
                   genResponse>>

\* json.dump of the entry appended last in place of the whole stack
SumWrittenLastOnly ==
    /\ pc = "sum_writing"
    /\ summaryFile' = [exists |-> TRUE, complete |-> TRUE,
                       entries |-> <<LastOf(summary_stack)>>]
    /\ confirmed' = summaryFile'.entries
    /\ AdvancePart
    /\ UNCHANGED <<run, slideFiles, next_slide, summary_stack, prompt,
                   lastOuts, reported, stoppedAt, error, generated,
                   startSlides, startStack, firstCall,
                   runVars, auxVars, args, configStored, storedOutline, exitStatus, genResponse>>

\* main: json.dump(summary_stack, f) has written everything and f is closed
SumWritten ==
    /\ pc = "sum_writing"
    /\ summaryFile' = [summaryFile EXCEPT !.complete = TRUE]
    /\ confirmed' = summaryFile.entries
    /\ AdvancePart
    /\ UNCHANGED <<run, slideFiles, next_slide, summary_stack, prompt,
                   lastOuts, reported, stoppedAt, error, generated,
                   startSlides, startStack, firstCall,
                   runVars, auxVars, args, configStored, storedOutline, exitStatus, genResponse>>

\* main: except KeyboardInterrupt.  The exception is raised wherever the
\* process is inside the try block, also while the subprocess runs or a
\* with block has a file open.
Interrupt ==
    /\ pc \in InTry
    /\ stoppedAt' = pc
    /\ reported' = next_slide
    /\ pc' = "interrupted"
    /\ exitStatus' = 0
    /\ UNCHANGED <<run, slideFiles, summaryFile, next_slide, summary_stack, i,
                   j, slide_parts, prompt, lastOuts, error, generated,
                   confirmed, startSlides, startStack, firstCall,
                   runVars, auxVars, args, configStored, storedOutline, genResponse>>

\* main: open, write, json.dump or the close of a file raises OSError.  The
\* try block handles KeyboardInterrupt only: the traceback ends the process.
WriteFails ==
    /\ pc \in {"part", "slide_writing", "sum_writing"}
    /\ stoppedAt' = pc
    /\ pc' = "crashed"
    /\ error' = "OSError"
    /\ exitStatus' = 1
    /\ UNCHANGED <<run, slideFiles, summaryFile, next_slide, summary_stack, i,
                   j, slide_parts, prompt, lastOuts, reported, generated,
                   confirmed, startSlides, startStack, firstCall,
                   runVars, auxVars, args, configStored, storedOutline, genResponse>>

Next ==
    \/ StartRun
    \/ LoopEnd
    \/ NextTopic
    \/ GenReturn
    \/ SlideOpen
    \/ SlideWritten
    \/ SumReturn
    \/ SumWritten
    \/ Interrupt
    \/ WriteFails

Spec == Init /\ [][Next]_vars

\* runs on responses that are split in every way, each part getting its
\* summary
InitSplit ==
    /\ InitCourse
    /\ nTopics = 0
    /\ configFiles = {NumTopics}
    /\ test_mode = FALSE
    /\ gateway = [gen |-> SplitOutcomes, sum |-> {Response(<<"s">>)}]
    /\ combiner = NoCombiner
    /\ processor = NoProcessor
    /\ parser = NoParser
    /\ retrier = NoRetrier

SpecSplit == InitSplit /\ [][Next]_vars

TypeOK ==
    /\ pc \in {"idle"} \cup InTry \cup Stopped
    /\ run \in 0..MaxRuns
    /\ i \in 0..(nTopics + 1)
    /\ exitStatus \in {-1, 0, 1}
    /\ args \in CommandLines

\* runs with --test-mode on an outline of one topic more than the cap; a
\* response holds one slide or two, and every slide gets its summary
InitTest ==
    /\ InitCourse
    /\ nTopics = 0
    /\ configFiles = {TestModeCap + 1}
    /\ test_mode = TRUE
    /\ gateway = [gen |-> {Failure, Response(<<"a">>),
                           Response(<<"a", "M", " ", "b">>)},
                  sum |-> {Response(<<"s">>)}]
    /\ combiner = NoCombiner
    /\ processor = NoProcessor
    /\ parser = NoParser
    /\ retrier = NoRetrier

SpecTest == InitTest /\ [][Next]_vars

\* runs that can be given either of two outlines with --config; an attempt
\* fails or gives a slide, and every slide gets its summary
InitConfig ==
    /\ InitCourse
    /\ nTopics = 0
    /\ configFiles = {NumTopics - 1, NumTopics}
    /\ test_mode = FALSE
    /\ gateway = [gen |-> {Failure, Response(<<"a">>)},
                  sum |-> {Response(<<"s">>)}]
    /\ combiner = NoCombiner
    /\ processor = NoProcessor
    /\ parser = NoParser
    /\ retrier = NoRetrier

SpecConfig == InitConfig /\ [][Next]_vars

\* ------------------------------------------------------------ the combiner
\* the code point of the first character of a piece of a file name
CodePoint(c) ==
    IF c = ".html" THEN 46
    ELSE IF IsDigit(c) THEN 48 + DigitValue(c)
    ELSE IF c = "_" THEN 95
    ELSE 115

\* a < b for two file names: the comparison of str, character by character
NameLess(a, b) ==
    \/ /\ Len(a) < Len(b)
       /\ SubSeq(b, 1, Len(a)) = a
    \/ \E k \in 1..Len(a) :
          /\ k <= Len(b)
          /\ SubSeq(a, 1, k - 1) = SubSeq(b, 1, k - 1)
          /\ CodePoint(a[k]) < CodePoint(b[k])

\* sorted(names) for a set of file names
RECURSIVE Sorted(_)
Sorted(names) ==
    IF names = {} THEN <<>>
    ELSE LET least == CHOOSE a \in names :
                          \A b \in names : a = b \/ NameLess(a, b)
         IN <<least>> \o Sorted(names \ {least})

\* the topic indices at which the writing of slide files starts
StartIndices == {1, 9, 99, 999}

\* the numbers of parts a response is split into
PartCounts == {1, 2, 3, 10}

\* the names of the slide files of one topic, in the order main writes them
NamesOfTopic(topic, nparts) ==
    [part \in 1..nparts |-> SlideFileName(SlideNumber(topic, part, nparts))]

InitSort ==
    /\ InitDriver
    /\ \E start \in StartIndices :
          combiner = [NoCombiner EXCEPT !.start = start]
    /\ processor = NoProcessor
    /\ parser = NoParser
    /\ retrier = NoRetrier

\* generate_slides.py, main: the slide files of the next topic are written
\* (a listing made before does not hold them)
WriteTopic ==
    /\ combiner.topics < NumTopics
    /\ \E nparts \in PartCounts :
          combiner' =
             [combiner EXCEPT
                !.names = @ \o NamesOfTopic(combiner.start + combiner.topics, nparts),
                !.topics = @ + 1,
                !.slides = <<>>,
                !.listed = FALSE]
    /\ UNCHANGED <<driverVars, processor, parser, retrier>>

\* combine_all_slides.py, main: slides = sorted(set(glob("slide_*.html")))
Combine ==
    /\ combiner' = [combiner EXCEPT !.slides = Sorted(Range(combiner.names)),
                                    !.listed = TRUE]
    /\ UNCHANGED <<driverVars, processor, parser, retrier>>

NextSort ==
    \/ WriteTopic
    \/ Combine

SpecSort == InitSort /\ [][NextSort]_vars

\* ----------------------------------------------------------- the processor
\* message.usage.input_tokens and output_tokens of a call
TokenCounts == {1, 2, 5}

\* TokenTracker.get_stats of a tracker to which the usages were added
get_stats(total_input_tokens, total_output_tokens) ==
    [exists |-> TRUE,
     input_tokens |-> total_input_tokens,
     output_tokens |-> total_output_tokens,
     total_tokens |-> total_input_tokens + total_output_tokens]

InitUsage ==
    /\ InitDriver
    /\ combiner = NoCombiner
    /\ processor = NoProcessor
    /\ parser = NoParser
    /\ retrier = NoRetrier

\* anthropic_file_processor.py, main: no API key in the environment; the
\* process exits with status 1 before it has a tracker
ProcessorRejects ==
    /\ processor.calls < MaxCalls
    /\ processor' = [processor EXCEPT !.calls = @ + 1]
    /\ UNCHANGED <<driverVars, combiner, parser, retrier>>

\* main: process_file returns False on an error of the API call; the new
\* tracker, to which nothing was added, is written to the stats file
ProcessorFails ==
    /\ processor.calls < MaxCalls
    /\ processor' = [processor EXCEPT !.calls = @ + 1,
                                      !.stats = get_stats(0, 0)]
    /\ UNCHANGED <<driverVars, combiner, parser, retrier>>

\* main: the API call succeeds; its usage is added to the new tracker, and
\* the tracker is written to the stats file (the response file is written,
\* or its write fails and the process exits with status 1)
ProcessorSucceeds ==
    /\ processor.calls < MaxCalls
    /\ \E input_tokens \in TokenCounts, output_tokens \in TokenCounts :
          processor' = [processor EXCEPT
                           !.calls = @ + 1,
                           !.sum_in = @ + input_tokens,
                           !.sum_out = @ + output_tokens,
                           !.stats = get_stats(input_tokens, output_tokens)]
    /\ UNCHANGED <<driverVars, combiner, parser, retrier>>

NextUsage ==
    \/ ProcessorRejects
    \/ ProcessorFails
    \/ ProcessorSucceeds

SpecUsage == InitUsage /\ [][NextUsage]_vars

\* -------------------------------------------------------------- the parser
\* An outline text is a sequence of pieces: "\n", " ", the words and signs
\* the patterns of parse_config look for, and the plain words "x" and "y".
NL == "\n"

\* str.split(sep)
RECURSIVE SplitOn(_, _)
SplitOn(s, sep) ==
    IF \E k \in 1..Len(s) : s[k] = sep
    THEN LET k == CHOOSE k \in 1..Len(s) :
                    /\ s[k] = sep
                    /\ \A m \in 1..(k - 1) : s[m] # sep
         IN <<SubSeq(s, 1, k - 1)>> \o SplitOn(SubSeq(s, k + 1, Len(s)), sep)
    ELSE <<s>>

\* "\n".join(lines)
RECURSIVE JoinLines(_)
JoinLines(lines) ==
    IF lines = <<>> THEN <<>>
    ELSE IF Len(lines) = 1 THEN lines[1]
    ELSE lines[1] \o <<NL>> \o JoinLines(Tail(lines))

\* the end of the longest run of pieces of a set that starts at k
RunEnd(s, k, set) ==
    CHOOSE p \in k..(Len(s) + 1) :
        /\ \A m \in k..(p - 1) : s[m] \in set
        /\ p = Len(s) + 1 \/ s[p] \notin set

\* where "$" and "(?:\n|$)" match first from k on: before a newline, or at the end
LineEnd(s, k) == RunEnd(s, k, {c \in Range(s) : c # NL})

\* where "^" matches under re.MULTILINE
LineStarts(s) == {1} \cup {k + 1 : k \in {m \in 1..Len(s) : s[m] = NL}}

\* the group of "\s*(.*?)(?:\n|$)" matched from k on: the whitespace, also
\* newlines, is passed over, and the group is the rest of that line
GroupAfter(s, k) ==
    LET q == RunEnd(s, k, Whitespace) IN SubSeq(s, q, LineEnd(s, q) - 1)

NoMatch == [found |-> FALSE, group |-> <<>>]
Match(group) == [found |-> TRUE, group |-> group]

\* re.search(r"Course Title:\s*(.*?)(?:\n|$)", content, re.MULTILINE)
SearchCourseTitle(s) ==
    LET at == {k \in 1..(Len(s) - 2) :
                  SubSeq(s, k, k + 2) = <<"Course", " ", "Title:">>}
    IN IF at = {} THEN NoMatch
       ELSE Match(GroupAfter(s, (CHOOSE k \in at : \A m \in at : k <= m) + 3))

\* re.search(r"Title:\s*(.*?)(?:\n|$)", content, re.MULTILINE)
SearchTitle(s) ==
    LET at == {k \in 1..Len(s) : s[k] = "Title:"}
    IN IF at = {} THEN NoMatch
       ELSE Match(GroupAfter(s, (CHOOSE k \in at : \A m \in at : k <= m) + 1))

\* re.search(r"^#\s*(.*?)(?:\n|$)", content, re.MULTILINE)
SearchHeading(s) ==
    LET at == {k \in LineStarts(s) : k <= Len(s) /\ s[k] = "#"}
    IN IF at = {} THEN NoMatch
       ELSE Match(GroupAfter(s, (CHOOSE k \in at : \A m \in at : k <= m) + 1))

\* r"\s*=+\s*$" matched from p on
UnderlineTail(s, p) ==
    \E p4 \in p..RunEnd(s, p, Whitespace) :
       \E p5 \in (p4 + 1)..RunEnd(s, p4, {"="}) :
          \E p6 \in p5..RunEnd(s, p5, Whitespace) :
             p6 = Len(s) + 1 \/ s[p6] = NL

\* the ways r"^=+\s*(.*?)\s*=+\s*$" matches from the line start k: the ends
\* of "=+" and of "\s*" and the end of the group
UnderlineMatches(s, k) ==
    UNION { UNION { { <<p1, p2, p3>> :
                         p3 \in {q \in p2..LineEnd(s, p2) : UnderlineTail(s, q)} } :
                    p2 \in p1..RunEnd(s, p1, Whitespace) } :
            p1 \in (k + 1)..RunEnd(s, k, {"="}) }

\* the match the regex engine finds first: "=+" and "\s*" as long as they
\* can be, the group as short as it can be
FirstUnderlineMatch(s, k) ==
    LET matches == UnderlineMatches(s, k) IN
    CHOOSE m \in matches :
        \A n \in matches :
            \/ m[1] > n[1]
            \/ m[1] = n[1] /\ m[2] > n[2]
            \/ m[1] = n[1] /\ m[2] = n[2] /\ m[3] <= n[3]

\* re.search(r"^=+\s*(.*?)\s*=+\s*$", content, re.MULTILINE)
SearchUnderlined(s) ==
    LET at == {k \in LineStarts(s) : k <= Len(s) /\ UnderlineMatches(s, k) # {}}
    IN IF at = {} THEN NoMatch
       ELSE LET k == CHOOSE k \in at : \A m \in at : k <= m
                m == FirstUnderlineMatch(s, k)
            IN Match(SubSeq(s, m[2], m[3] - 1))

\* parse_config: the loop over title_patterns; None is the empty title
TitleByPattern(content) ==
    LET standard == SearchCourseTitle(content)
        shorter == SearchTitle(content)
        markdown == SearchHeading(content)
        underlined == SearchUnderlined(content)
    IN IF standard.found THEN Strip(standard.group)
       ELSE IF shorter.found THEN Strip(shorter.group)
       ELSE IF markdown.found THEN Strip(markdown.group)
       ELSE IF underlined.found THEN Strip(underlined.group)
       ELSE <<>>

UntitledCourse == <<"Untitled Course">>

\* the placeholder, whatever the lines are
PlaceholderOnly(content) == UntitledCourse

\* parse_config: next((line.strip() for line in content.split('\n')
\* if line.strip()), "Untitled Course")
FirstNonEmptyLine(content) ==
    LET lines == SplitOn(content, NL)
        full == {n \in 1..Len(lines) : Strip(lines[n]) # <<>>}
    IN IF full = {} THEN UntitledCourse
       ELSE Strip(lines[CHOOSE n \in full : \A m \in full : n <= m])

\* parse_config: the header section ends with the first blank line
ContentStart(lines) ==
    LET blank == {n \in 1..Len(lines) : Strip(lines[n]) = <<>>}
    IN IF blank = {} THEN 0 ELSE CHOOSE n \in blank : \A m \in blank : n <= m

\* re.match(r'^(Part|Section|Module|Chapter)\s+\d+:', line, re.I)
IsSectionHeader(line) ==
    /\ line # <<>>
    /\ line[1] \in {"Part", "Section", "Module", "Chapter"}
    /\ LET a == RunEnd(line, 2, Whitespace)
           b == RunEnd(line, a, Range(DigitChars))
       IN a > 2 /\ b > a /\ b <= Len(line) /\ line[b] = ":"

\* re.match(r'^(Overview|Summary|Notes?|Objectives?):', line, re.I)
IsLabel(line) ==
    /\ line # <<>>
    /\ line[1] \in {"Overview:", "Summary:", "Note:", "Notes:",
                    "Objective:", "Objectives:"}

\* the group of "\s*(.*)" matched from k on in a line
RestAfter(line, k) == SubSeq(line, RunEnd(line, k, Whitespace), Len(line))

\* parse_config: the loop over the content patterns for a line that is
\* stripped and not empty; None is the empty content
ContentByPattern(line) ==
    LET d == RunEnd(line, 1, Range(DigitChars)) IN
    IF d > 1 /\ d <= Len(line) /\ line[d] = "."
    THEN Strip(RestAfter(line, d + 1))
    ELSE IF line[1] \in {"-", "*"} THEN Strip(RestAfter(line, 2))
    ELSE IF line[1] = "(A)" THEN Strip(RestAfter(line, 2))
    ELSE IF line[1] \in {"Topic:", "Session:"} THEN Strip(RestAfter(line, 2))
    ELSE <<>>

\* parse_config: what a line of the content section adds to topics
TopicsOfLine(raw) ==
    LET line == Strip(raw) IN
    IF line = <<>> \/ IsSectionHeader(line) THEN <<>>
    ELSE LET content == ContentByPattern(line)
         IN IF content # <<>> THEN <<content>>
            ELSE IF IsLabel(line) THEN <<>>
            ELSE <<line>>

RECURSIVE TopicsOfLines(_)
TopicsOfLines(lines) ==
    IF lines = <<>> THEN <<>>
    ELSE TopicsOfLine(Head(lines)) \o TopicsOfLines(Tail(lines))

parse_config(text) ==
    LET content == Strip(text)
        byPattern == TitleByPattern(content)
        lines == SplitOn(content, NL)
    IN [title |-> IF byPattern # <<>> THEN byPattern
                  ELSE FirstNonEmptyLine(content),
        topics |-> TopicsOfLines(SubSeq(lines, ContentStart(lines) + 1, Len(lines)))]

\* the lines outline texts are made of
OutlineLines ==
    { <<>>,
      <<" ">>,
      <<"x">>,
      <<" ", "y", " ">>,
      <<"Course", " ", "Title:", " ", "x">>,
      <<"y", " ", "Title:">>,
      <<"#", "x", " ">>,
      <<"=", "=", " ", "x", " ", "=">>,
      <<"=", "=">>,
      <<"=", " ", "x">>,
      <<"1", ".", " ", "x">>,
      <<"1", ".">>,
      <<"-", "y">>,
      <<"Topic:", " ", "x", " ", "y">>,
      <<"Part", " ", "1", ":", " ", "x">>,
      <<"Overview:", " ", "x">> }

Outlines ==
    {JoinLines(lines) : lines \in UNION {[1..n -> OutlineLines] : n \in 0..MaxLines}}

InitParse ==
    /\ InitDriver
    /\ combiner = NoCombiner
    /\ processor = NoProcessor
    /\ parser \in {[NoParser EXCEPT !.outline = text] : text \in Outlines}
    /\ retrier = NoRetrier

\* main: course_title, topics = parse_config(course_config)
Parse ==
    /\ ~parser.parsed
    /\ LET result == parse_config(parser.outline)
       IN parser' = [outline |-> parser.outline,
                     parsed |-> TRUE,
                     title |-> result.title,
                     topics |-> result.topics]
    /\ UNCHANGED <<driverVars, combiner, processor, retrier>>

NextParse == Parse

SpecParse == InitParse /\ [][NextParse]_vars

\* ------------------------------------------------------- the retry wrapper
\* One call of run_prompt_through_anthropic with a max_retries of
\* 0..MaxBudget, one pass of the for loop at a time.
MaxBudget == 3

\* what an attempt can end in: the subprocess fails, or the response file
\* holds a sentinel, a text, a text with a sentinel in it, or whitespace only
RetryOutcomes ==
    { Failure,
      Response(<<"T">>),
      Response(<<" ", "C", " ">>),
      Response(<<" ", "a", " ">>),
      Response(<<"C", " ", "a">>),
      Response(<<" ">>) }

InitRetry ==
    /\ InitDriver
    /\ combiner = NoCombiner
    /\ processor = NoProcessor
    /\ parser = NoParser
    /\ retrier \in {[NoRetrier EXCEPT !.max_retries = m, !.at = "for"] :
                        m \in 0..MaxBudget}

\* run_prompt_through_anthropic: one pass of "for attempt in
\* range(max_retries)": subprocess.run, the response read and stripped,
\* then return response, return None on the last attempt, or continue
RetryAttempt ==
    /\ retrier.at = "for"
    /\ retrier.attempt < retrier.max_retries
    /\ \E o \in RetryOutcomes :
         LET response == Strip(o.text)
             again == ~o.ok \/ IsSentinel(response)
             last == retrier.attempt = retrier.max_retries - 1
         IN retrier' =
               [retrier EXCEPT
                  !.outs = Append(@, o),
                  !.attempt = IF again /\ ~last THEN @ + 1 ELSE @,
                  !.at = IF again /\ ~last THEN "for" ELSE "returned",
                  !.result = IF again THEN None ELSE Returned(response)]
    /\ UNCHANGED <<driverVars, combiner, processor, parser>>

\* run_prompt_through_anthropic: range(max_retries) is used up without a
\* return in the loop: the return None after the loop
RetryExhausted ==
    /\ retrier.at = "for"
    /\ retrier.attempt >= retrier.max_retries
    /\ retrier' = [retrier EXCEPT !.at = "returned", !.result = None]
    /\ UNCHANGED <<driverVars, combiner, processor, parser>>

NextRetry ==
    \/ RetryAttempt
    \/ RetryExhausted

SpecRetry == InitRetry /\ [][NextRetry]_vars

\* ------------------------------------------------- vocabulary of the claims
IsPrefix(s, t) == Len(s) <= Len(t) /\ SubSeq(t, 1, Len(s)) = s
Spaces(n) == [k \in 1..n |-> " "]

\* the topic a slide file belongs to: the number that follows "slide_"
TopicOf(f) ==
    LET stop == CHOOSE q \in 2..Len(f) :
                    /\ ~IsDigit(f[q])
                    /\ \A m \in 2..(q - 1) : IsDigit(f[m])
    IN IntOf(SubSeq(f, 2, stop - 1))

TopicsOn(files) == {TopicOf(f) : f \in DOMAIN files}
HighestTopic(files) == IF DOMAIN files = {} THEN 0 ELSE SetMax(TopicsOn(files))
LowestMissingTopic(files) ==
    CHOOSE t \in 1..(NumTopics + 1) :
        /\ t \notin TopicsOn(files)
        /\ \A u \in 1..(t - 1) : u \in TopicsOn(files)

SummaryReadable == ~summaryFile.exists \/ summaryFile.complete
Origins(stack) == [n \in 1..Len(stack) |-> stack[n].of]

\* the text is the topic sentinel with whitespace around it and nothing else
TrimsToTopicSentinel(text) ==
    \E a, b \in 0..Len(text) :
        text = Spaces(a) \o TOPIC_CLARIFICATION_NEEDED \o Spaces(b)

\* ------------------------------------------------------------------ claims

\* C1: a run started on a slides directory that holds slide files for
\* exactly the topics 1..k and a summaries file of k entries does not end in
\* an error, issues its first generation call for topic k+1 with that
\* k-entry stack as context, and writes no slide file of a topic in 1..k
\* (stated for runs whose command line is accepted and in which no
\* directory creation and no file write fails).
C1_ResumesAtKPlusOne ==
    \A k \in 0..(NumTopics - 1) :
        ( /\ run > 0
          /\ pc # "input_error"
          /\ error # "OSError"
          /\ TopicsOn(startSlides) = 1..k
          /\ startStack.readable
          /\ Len(startStack.entries) = k )
        => /\ pc # "crashed"
           /\ firstCall.made =>
                /\ firstCall.topic = k + 1
                /\ firstCall.context = startStack.entries
           /\ pc = "done" => firstCall.made
           /\ \A f \in DOMAIN slideFiles :
                TopicOf(f) <= k =>
                    /\ f \in DOMAIN startSlides
                    /\ slideFiles[f] = startSlides[f]

\* C2: for every set of slide files a run leaves behind, resume detection
\* returns normally, and returns the highest topic index among the files
\* plus one (1 when there is no slide file).
C2_ResumeDetectionReturnsHighestPlusOne ==
    pc \in Stopped =>
        get_next_slide_number(DOMAIN slideFiles) = HighestTopic(slideFiles) + 1

AllComplete(files) == \A f \in DOMAIN files : files[f].complete

\* C3: the resume point of a run is the lowest topic index that had no
\* slide file when the run started, so a topic skipped earlier is processed
\* again (stated for runs that start on completely written slide files).
C3_ResumesAtLowestMissingTopic ==
    ( /\ pc \in InTry \cup {"done", "interrupted"}
      /\ AllComplete(startSlides) )
    => next_slide = LowestMissingTopic(startSlides)

WrittenSlides == {f \in DOMAIN slideFiles : slideFiles[f].complete}

\* C4: whenever a run has stopped, the summaries file holds exactly one
\* entry for every slide file written so far and no other entry.
C4_StackMatchesSlidesExactly ==
    pc \in Stopped =>
        /\ Range(Origins(summaryFile.entries)) = WrittenSlides
        /\ Len(summaryFile.entries) = Cardinality(WrittenSlides)

\* C4 as amended: the summaries file is never ahead of the slides: every
\* entry in it belongs to a slide file that is on disk and completely
\* written, and it has no more entries than there are slide files.
C4_StackNeverAheadOfSlides ==
    /\ \A n \in 1..Len(summaryFile.entries) :
          /\ summaryFile.entries[n].of \in DOMAIN slideFiles
          /\ slideFiles[summaryFile.entries[n].of].complete
    /\ Len(summaryFile.entries) <= Cardinality(DOMAIN slideFiles)

\* a finished run whose summaries file has entries and is behind the slides
C4_Witness ==
    /\ pc = "done"
    /\ summaryFile.complete
    /\ Len(summaryFile.entries) >= 1
    /\ Len(summaryFile.entries) < Cardinality(DOMAIN slideFiles)

\* C5: the n-th entry of the context stack is the summary of the n-th
\* slide/part generated, and the context of the prompt built last lists the
\* entries in that order.
C5_NthEntryIsNthSlide ==
    /\ \A n \in 1..Len(summary_stack) :
          /\ n <= Len(generated)
          /\ summary_stack[n].of = generated[n]
    /\ prompt.made => IsPrefix(prompt.context, summary_stack)

PositionOf(f) == CHOOSE n \in 1..Len(generated) : generated[n] = f
InGenerationOrder(stack) ==
    /\ \A n \in 1..Len(stack) : stack[n].of \in Range(generated)
    /\ \A m, n \in 1..Len(stack) :
          m < n => PositionOf(stack[m].of) < PositionOf(stack[n].of)

\* C5 as amended: the entries of the context stack, in memory and on disk,
\* are summaries of distinct generated slides/parts in generation order (a
\* slide/part without a summary has no entry, so the n-th entry need not
\* belong to the n-th slide), and the context of the prompt built last
\* lists the entries in that order.
C5_EntriesInGenerationOrder ==
    /\ \A m, n \in 1..Len(generated) : m # n => generated[m] # generated[n]
    /\ InGenerationOrder(summary_stack)
    /\ InGenerationOrder(summaryFile.entries)
    /\ prompt.made =>
          /\ IsPrefix(prompt.context, summary_stack)
          /\ InGenerationOrder(prompt.context)

\* a resumed run builds a prompt from a stack of two entries, neither of
\* them the summary of the first slide generated
C5_Witness ==
    /\ run >= 2
    /\ pc = "gen_call"
    /\ Len(prompt.context) >= 2
    /\ prompt.context[1].of # generated[1]

\* what a load of summaries.json yields: nothing from an incomplete file
Loadable ==
    IF summaryFile.exists /\ summaryFile.complete
    THEN summaryFile.entries ELSE <<>>

\* C6: the persisted stack is append-only: whenever the summaries file is
\* complete the sequence persisted before is a prefix of it, and when a run
\* has stopped, also in the middle of an append, every entry persisted
\* before can still be loaded from the file, in its place.
C6_PersistedStackAppendOnly ==
    /\ (summaryFile.exists /\ summaryFile.complete) =>
          IsPrefix(confirmed, summaryFile.entries)
    /\ pc \in Stopped => IsPrefix(confirmed, Loadable)

\* C7: after an interrupt every slide file and the summaries file are
\* either absent or complete.
C7_NoPartialFileAfterInterrupt ==
    pc = "interrupted" =>
        /\ \A f \in DOMAIN slideFiles : slideFiles[f].complete
        /\ summaryFile.exists => summaryFile.complete

\* C8: an interrupt stops the run only at a boundary between steps, never
\* while a gateway call or a file write is in progress.
C8_CancellationIsCooperative ==
    pc = "interrupted" => stoppedAt \in {"loop", "part"}

\* C9: the slide number reported on interruption is the one at which the
\* next invocation's resume detection starts (stated for interrupts that
\* leave completely written slide files on which resume detection returns).
C9_ReportedResumePointIsNextStart ==
    ( /\ pc = "interrupted"
      /\ AllComplete(slideFiles)
      /\ get_next_slide_number(DOMAIN slideFiles) # Raised )
    => reported = get_next_slide_number(DOMAIN slideFiles)

\* C10: when the last attempt of the generation call returns the topic
\* sentinel, alone or inside whitespace, the step writes no slide file,
\* leaves the context stack in memory and on disk unchanged, and goes on to
\* the next topic.
C10_SentinelSkipsTopic ==
    [][ ( /\ pc = "gen_call"
          /\ pc' # "interrupted"
          /\ LastOf(lastOuts').ok
          /\ TrimsToTopicSentinel(LastOf(lastOuts').text) )
        => /\ slideFiles' = slideFiles
           /\ \A f \in DOMAIN slideFiles' : TopicOf(f) # i
           /\ summary_stack' = summary_stack
           /\ summaryFile' = summaryFile
           /\ pc' = "loop"
           /\ i' = i + 1 ]_vars

\* the first topic was skipped on a sentinel inside whitespace: the run is at
\* the loop head for topic 2 and the slides directory is empty
C10_Witness ==
    /\ lastOuts # <<>>
    /\ LastOf(lastOuts) = Response(<<" ", "T", " ">>)
    /\ pc = "loop"
    /\ i = 2
    /\ DOMAIN slideFiles = {}

\* the text is the content sentinel with whitespace around it and nothing else
TrimsToContentSentinel(text) ==
    \E a, b \in 0..Len(text) :
        text = Spaces(a) \o CONTENT_CLARIFICATION_NEEDED \o Spaces(b)

\* an attempt that calls for a retry: the processor failed, or its response
\* is one of the two sentinels
FailedOrSentinel(o) ==
    \/ ~o.ok
    \/ TrimsToTopicSentinel(o.text)
    \/ TrimsToContentSentinel(o.text)

\* C11: a generation or summarization call makes at least one attempt and
\* at most the retry budget; every attempt but the last one made has failed
\* or returned a sentinel; when the last one has too, the budget is used up
\* and the topic (or the part's summary) is skipped: no slide file is
\* written, or no entry added, and the run goes on without an error.
C11_RetriedWithinBudgetThenSkipped ==
    [][ ( /\ pc \in {"gen_call", "sum_call"}
          /\ pc' # "interrupted" )
        => /\ Len(lastOuts') \in 1..MaxRetries
           /\ \A n \in 1..(Len(lastOuts') - 1) : FailedOrSentinel(lastOuts'[n])
           /\ pc' # "crashed"
           /\ error' = "none"
           /\ FailedOrSentinel(LastOf(lastOuts')) =>
                /\ Len(lastOuts') = MaxRetries
                /\ summary_stack' = summary_stack
                /\ summaryFile' = summaryFile
                /\ slideFiles' = slideFiles
                /\ pc = "gen_call" => (pc' = "loop" /\ i' = i + 1)
                /\ pc = "sum_call" => pc' \in {"part", "loop"} ]_vars

\* topic 1 was skipped and the summarization call of topic
\* 2 returned the content sentinel: both were skipped and the run goes on
C11_Witness ==
    /\ pc = "loop"
    /\ i = 3
    /\ error = "none"
    /\ lastOuts = <<Response(<<"C">>)>>
    /\ TopicsOn(slideFiles) = {2}
    /\ summaryFile = NoSummaryFile

\* the positions of the split marker in a text
MarkerPositions(text) == {n \in 1..Len(text) : text[n] = SPLIT_MARKER}

\* the k-th part of a text: what lies between the (k-1)-th and the k-th
\* occurrence of the marker (the start and the end of the text for the first
\* and the last part)
PartOf(text, k) ==
    LET cuts == MarkerPositions(text) \cup {0, Len(text) + 1}
        nth(n) == CHOOSE c \in cuts : Cardinality({d \in cuts : d < c}) = n - 1
    IN SubSeq(text, nth(k) + 1, nth(k + 1) - 1)

\* t is s without its leading and trailing whitespace
IsTrimOf(t, s) ==
    /\ \E a, b \in 0..Len(s) : s = Spaces(a) \o t \o Spaces(b)
    /\ t # <<>> => (t[1] \notin Whitespace /\ t[Len(t)] \notin Whitespace)

\* the slide files of a topic written in this run, in the order written
WrittenFor(topic) == SelectSeq(generated, LAMBDA f : TopicOf(f) = topic)

\* C12: once the step of a topic whose generation response holds the split
\* marker m times is over, the slides directory holds exactly m+1 slide
\* files of that topic; they were written in part order, and the body of
\* the k-th is the k-th part of the response without its leading and
\* trailing whitespace, and holds no marker.
C12_SplitYieldsPartsInOrder ==
    ( /\ genResponse.made
      /\ i > genResponse.topic )
    => LET m == Cardinality(MarkerPositions(genResponse.text))
           files == WrittenFor(genResponse.topic)
       IN /\ Len(files) = m + 1
          /\ {f \in DOMAIN slideFiles : TopicOf(f) = genResponse.topic}
                = Range(files)
          /\ Cardinality(Range(files)) = m + 1
          /\ \A k \in 1..(m + 1) :
                /\ slideFiles[files[k]].complete
                /\ IsTrimOf(slideFiles[files[k]].body, PartOf(genResponse.text, k))
                /\ SPLIT_MARKER \notin Range(slideFiles[files[k]].body)

\* a response with two markers has been split into three slide files, the
\* first of them with an empty body
C12_Witness ==
    /\ genResponse.made
    /\ i > genResponse.topic
    /\ Cardinality(MarkerPositions(genResponse.text)) = 2
    /\ Len(WrittenFor(genResponse.topic)) = 3
    /\ slideFiles[WrittenFor(genResponse.topic)[1]].body = <<>>

\* the three digits of a number below 1000: hundreds, tens, units
ThreeDigits(n) ==
    << DigitChars[((n \div 100) % 10) + 1],
       DigitChars[((n \div 10) % 10) + 1],
       DigitChars[(n % 10) + 1] >>

\* C13: the slide files written for a topic i whose response yields p parts
\* are, in the order written, slide_<iii>.html alone when p = 1 and
\* slide_<iii>_<j>.html for j = 1, 2, ... when p > 1, <iii> being i as three
\* digits (topics below 1000, parts below 10).
C13_NamesFollowTopicAndPart ==
    genResponse.made =>
        LET t == genResponse.topic
            p == Cardinality(MarkerPositions(genResponse.text)) + 1
            files == WrittenFor(t)
        IN /\ Len(files) <= p
           /\ i > t => Len(files) = p
           /\ \A k \in 1..Len(files) :
                 files[k] =
                    IF p = 1
                    THEN <<"slide_">> \o ThreeDigits(t) \o <<".html">>
                    ELSE <<"slide_">> \o ThreeDigits(t)
                            \o <<"_", DigitChars[k + 1]>> \o <<".html">>

\* topic 1 was written as one file without a suffix and topic 2 as three
\* files with the suffixes _1, _2 and _3
C13_Witness ==
    /\ i = 3
    /\ genResponse.made
    /\ genResponse.topic = 2
    /\ generated = << <<"slide_", "0", "0", "1", ".html">>,
                      <<"slide_", "0", "0", "2", "_", "1", ".html">>,
                      <<"slide_", "0", "0", "2", "_", "2", ".html">>,
                      <<"slide_", "0", "0", "2", "_", "3", ".html">> >>

\* C14: the combiner's sorted listing of the slide files is the sequence of
\* the files in the order they were generated: ascending topic index, and
\* ascending part index within a split topic.
C14_SortedIsGenerationOrder ==
    combiner.listed => combiner.slides = combiner.names

\* C15: a filesystem error raised by the write of a slide file or of the
\* summaries file does not end the run: the run is still going on, or has
\* ended normally or on an interrupt, and no traceback ended the process.
C15_WriteErrorAbandonsStepOnly ==
    ( /\ error = "OSError"
      /\ stoppedAt \in {"part", "slide_writing", "sum_writing"} )
    => /\ pc \in InTry \cup {"done", "interrupted"}
       /\ exitStatus # 1

\* the three input errors: no --course-id; a --config path that does not
\* exist; neither a --config file nor a stored configuration
IsInputError(a, stored) ==
    \/ ~a.course_id
    \/ a.config = "missing"
    \/ (a.config = "none" /\ ~stored)

\* C16: a run whose command line is an input error stops before its first
\* gateway call and leaves the slide files, the summaries file and the
\* stored configuration as they were; nothing happens after it but the
\* start of another run.
C16_InputErrorStopsBeforeCallsAndWrites ==
    [][ /\ ( /\ run' = run + 1
             /\ IsInputError(args', configStored) )
           => /\ pc' \in {"input_error", "crashed"}
              /\ pc' = "crashed" => error' = "OSError"
              /\ ~firstCall'.made
              /\ ~prompt'.made
              /\ slideFiles' = slideFiles
              /\ summaryFile' = summaryFile
              /\ configStored' = configStored
        /\ pc = "input_error" => run' = run + 1 ]_vars

\* a course that has slide files and a stored configuration is run again
\* with a --config path that does not exist: the run has stopped
C16_Witness ==
    /\ pc = "input_error"
    /\ args.course_id
    /\ args.config = "missing"
    /\ configStored
    /\ DOMAIN slideFiles # {}
    /\ slideFiles = startSlides
    /\ ~firstCall.made

\* C17: a run that ends on an input error or on a failure to create a
\* directory ends with a non-zero exit status, and a run that ends normally
\* (topics skipped or not) or on an interrupt ends with exit status 0.
C17_ExitStatusTellsInputErrors ==
    /\ pc = "input_error" => exitStatus \notin {-1, 0}
    /\ (pc = "crashed" /\ error = "OSError" /\ stoppedAt = "none")
          => exitStatus \notin {-1, 0}
    /\ pc \in {"done", "interrupted"} => exitStatus = 0

\* the slide files a run has opened for writing
OpenedInThisRun == {f \in DOMAIN slideFiles : f \notin DOMAIN startSlides}

\* C19: a run with --test-mode writes at most 5 slide files, and the
\* outline keeps all its topics.
C19_TestModeWritesAtMostFiveSlides ==
    test_mode =>
        /\ Cardinality(OpenedInThisRun) <= TestModeCap
        /\ nTopics \in {0, TestModeCap + 1}

\* C18: once a call of the run has written them, the persisted statistics
\* hold the sums of the input and of the output tokens over the successful
\* calls made so far, and their total.
C18_StatsAreSumsOverCalls ==
    processor.stats.exists =>
        /\ processor.stats.input_tokens = processor.sum_in
        /\ processor.stats.output_tokens = processor.sum_out
        /\ processor.stats.total_tokens = processor.sum_in + processor.sum_out

\* none of the four title patterns matches the content of the outline
NoTitlePatternMatches(content) ==
    /\ ~SearchCourseTitle(content).found
    /\ ~SearchTitle(content).found
    /\ ~SearchHeading(content).found
    /\ ~SearchUnderlined(content).found

\* the lines of the outline as it is in the file
RawLines == SplitOn(parser.outline, NL)
IsBlankLine(line) == \A n \in 1..Len(line) : line[n] \in Whitespace

\* the lines after the header block: after the first blank line of the
\* content, or all lines when the content has no blank line
AfterHeader ==
    LET lines == SplitOn(Strip(parser.outline), NL)
    IN {n \in 1..Len(lines) :
           \/ \A m \in 1..Len(lines) : ~IsBlankLine(lines[m])
           \/ \E m \in 1..(n - 1) : IsBlankLine(lines[m])}

\* C20: parse_config returns a title that is not empty and a list of topics
\* for every outline text; when no title pattern matches, the title is the
\* first non-blank line of the outline without the whitespace around it, and
\* the placeholder when every line is blank; when every line after the
\* header block is blank, a section heading or a label, the list of topics
\* is empty.
C20_ParserTotalWithFallbacks ==
    parser.parsed =>
        /\ parser.title # <<>>
        /\ \A n \in 1..Len(parser.topics) : parser.topics[n] # <<>>
        /\ NoTitlePatternMatches(Strip(parser.outline)) =>
              IF \A n \in 1..Len(RawLines) : IsBlankLine(RawLines[n])
              THEN parser.title = UntitledCourse
              ELSE \E n \in 1..Len(RawLines) :
                      /\ ~IsBlankLine(RawLines[n])
                      /\ \A m \in 1..(n - 1) : IsBlankLine(RawLines[m])
                      /\ IsTrimOf(parser.title, RawLines[n])
        /\ LET lines == SplitOn(Strip(parser.outline), NL)
           IN (\A n \in AfterHeader :
                  \/ IsBlankLine(lines[n])
                  \/ IsSectionHeader(Strip(lines[n]))
                  \/ IsLabel(Strip(lines[n])))
              => parser.topics = <<>>

\* an outline that starts with a blank line and matches no title pattern
\* was parsed: the title is its second line, a label, and there is no topic
C20_Witness ==
    /\ parser.parsed
    /\ parser.outline = <<" ", NL, "Overview:", " ", "x", NL>>
    /\ parser.title = <<"Overview:", " ", "x">>
    /\ parser.topics = <<>>

\* the lines of the content parse_config works on
ContentLines == SplitOn(Strip(parser.outline), NL)

\* the header block: every line up to the first blank line of the content,
\* and every line when the content has no blank line
HeaderBlock ==
    {n \in 1..Len(ContentLines) :
        \A m \in 1..(n - 1) : ~IsBlankLine(ContentLines[m])}

\* the lines after the header block that are not blank, not a heading of a
\* structural section and not a label
TopicLines ==
    {n \in (1..Len(ContentLines)) \ HeaderBlock :
        /\ ~IsBlankLine(ContentLines[n])
        /\ ~IsSectionHeader(Strip(ContentLines[n]))
        /\ ~IsLabel(Strip(ContentLines[n]))}

\* the n-th number of a set of numbers, in rising order
NthOf(set, n) == CHOOSE k \in set : Cardinality({m \in set : m < k}) = n - 1

\* a text is the end of a line: the line without a bullet, number or tag
IsEndOf(text, line) ==
    /\ Len(text) <= Len(line)
    /\ text = SubSeq(line, Len(line) - Len(text) + 1, Len(line))

\* C21: no line of the header block (the lines up to the first blank line,
\* the title line among them) becomes a topic; the topics are the other
\* lines that are not blank, not a heading of a structural section and not
\* a label, one topic for each such line, in the order of the outline, with
\* repeated lines kept.
C21_TopicsAreLinesAfterHeader ==
    parser.parsed =>
        /\ Len(parser.topics) = Cardinality(TopicLines)
        /\ \A n \in 1..Len(parser.topics) :
              IsEndOf(parser.topics[n], Strip(ContentLines[NthOf(TopicLines, n)]))

\* what the f-string of generate_slide_prompt puts into the prompt for
\* {summary_stack}: the list of the summary texts, one after the other; the
\* only index an entry has in it is its position
RenderedTexts(stack) == [n \in 1..Len(stack) |-> stack[n].text]

\* C22: the context embedded in a generation prompt is the whole stack of
\* summaries as it is when the prompt is built, in the order of the appends,
\* and the index an entry is given in it is the number of the slide the
\* entry summarizes.
C22_ContextIsStackTaggedWithSlideNumbers ==
    (pc = "gen_call" /\ prompt.made) =>
        /\ RenderedTexts(prompt.context) = RenderedTexts(summary_stack)
        /\ \A n \in 1..Len(prompt.context) :
              prompt.context[n].of = SlideFileName(SlideNumber(n, 1, 1))

\* C23: when the summarization call of a part fails or returns the content
\* sentinel, the slide file written for the part stays on disk as it is, the
\* stack in memory and the summaries file are left as they are, and the run
\* goes on without an error: with the next part of the topic when there is
\* one, with the next topic otherwise.
C23_FailedSummaryKeepsSlideAndGoesOn ==
    [][ ( /\ pc = "sum_call"
          /\ pc' # "interrupted"
          /\ \/ ~LastOf(lastOuts').ok
             \/ TrimsToContentSentinel(LastOf(lastOuts').text) )
        => /\ slideFiles' = slideFiles
           /\ CurrentSlide \in DOMAIN slideFiles
           /\ slideFiles[CurrentSlide].complete
           /\ summary_stack' = summary_stack
           /\ summaryFile' = summaryFile
           /\ error' = "none"
           /\ IF j < Len(slide_parts)
              THEN pc' = "part" /\ i' = i /\ j' = j + 1
                   /\ slide_parts' = slide_parts
              ELSE pc' = "loop" /\ i' = i + 1 ]_vars

\* topic 1 has its summary in the file; the summarization call of the first
\* part of topic 2 failed: the part's file is on disk, the stack has the one
\* entry, and the second part is next
C23_Witness ==
    /\ pc = "part"
    /\ i = 2
    /\ j = 2
    /\ lastOuts = <<Failure>>
    /\ SlideFileName(SlideNumber(2, 1, 2)) \in DOMAIN slideFiles
    /\ slideFiles[SlideFileName(SlideNumber(2, 1, 2))].complete
    /\ Len(summary_stack) = 1
    /\ summaryFile.complete
    /\ summaryFile.entries = summary_stack

\* C24: a call of run_prompt_through_anthropic invokes the processor at most
\* max_retries times; an attempt whose response is not one of the two
\* sentinels is the last one made, and the call returns that response
\* without the whitespace around it; a call in which every attempt failed or
\* gave a sentinel returns None.
C24_BoundedRetryContract ==
    LET outs == retrier.outs
        answered == {n \in 1..Len(outs) : ~FailedOrSentinel(outs[n])}
    IN /\ Len(outs) <= retrier.max_retries
       /\ answered \subseteq {Len(outs)}
       /\ answered # {} =>
             /\ retrier.at = "returned"
             /\ ~retrier.result.none
             /\ IsTrimOf(retrier.result.text, LastOf(outs).text)
       /\ (retrier.at = "returned" /\ answered = {}) => retrier.result = None

\* a call with a budget of three: a failure, a sentinel, then a response
\* that is returned without its blanks
C24_Witness ==
    /\ retrier.max_retries = 3
    /\ retrier.at = "returned"
    /\ retrier.outs = <<Failure, Response(<<"T">>), Response(<<" ", "a", " ">>)>>
    /\ retrier.result = Returned(<<"a">>)

\* C25: whenever the summaries file exists, at the start of every topic step
\* and after every append that has been written out, the file is whole and
\* holds the stack that is in memory, and a generation prompt is built from
\* that stack; the first prompt of a resumed run has as its context the
\* stack that was in the file when the run started.
C25_FileIsStackAtEveryStep ==
    /\ (pc \in {"loop", "gen_call", "part"} /\ summaryFile.exists) =>
          /\ summaryFile.complete
          /\ summaryFile.entries = summary_stack
    /\ (pc = "gen_call" /\ summaryFile.exists) =>
          prompt.context = summaryFile.entries
    /\ (run >= 2 /\ firstCall.made) =>
          /\ startStack.readable
          /\ firstCall.context = startStack.entries

\* a run resumed on a file of one entry has built its first prompt from that
\* entry and has appended a second one: the file holds both
C25_Witness ==
    /\ run = 2
    /\ pc = "loop"
    /\ firstCall.made
    /\ Len(firstCall.context) = 1
    /\ Len(startStack.entries) = 1
    /\ summaryFile.exists
    /\ Len(summaryFile.entries) = 2

\* C26: once the course directory holds a configuration, no run changes it,
\* whatever file its --config names; every run that gets as far as parsing
\* works on the topics of the stored outline, which is the outline of the
\* run that stored it, and every slide file belongs to one of its topics.
C26_StoredConfigurationIsKept ==
    [][ /\ configStored =>
            /\ configStored'
            /\ storedOutline' = storedOutline
        /\ pc' \in InTry => nTopics' = storedOutline'
        /\ (configStored /\ pc' \in InTry) => nTopics' = storedOutline
        /\ \A f \in DOMAIN slideFiles' : TopicOf(f) \in 1..storedOutline' ]_vars

\* the second run was given an outline that is not the stored one, and
\* works on the stored one
C26_Witness ==
    /\ run = 2
    /\ pc = "gen_call"
    /\ args.config = "present"
    /\ args.file # storedOutline
    /\ configStored
    /\ nTopics = storedOutline
    /\ DOMAIN startSlides # {}

====
